---- MODULE Spec2Model ----
(***************************************************************************)
(* Model of src/dashboard.py: one Streamlit script run ("pass") of main()  *)
(* over the table that load_data() reads from combined_seasons.csv, and    *)
(* the reruns that a change of the sidebar filters triggers.               *)
(*                                                                         *)
(* A table (pandas DataFrame) is a record [columns, rows]: the set of      *)
(* column names and the sequence of rows, each row a function from the     *)
(* column names to the cell values.  A pandas Series indexed by a group    *)
(* key is a sequence of <<key, value>> pairs in index order.  Float values *)
(* (win rates, means) are exact fractions <<numerator, denominator>> in    *)
(* lowest terms.                                                           *)
(***************************************************************************)
EXTENDS Integers, Sequences, FiniteSets, TLC

\* ---------------------------------------------------------------- bounds
MaxRows == 2
NumReferees == 2
MaxGoals == 3

\* --------------------------------------------------------- input domains
TrackedTeam == "Man United"

SeasonNames == <<"2020", "2021">>
RefereeNames == <<"A", "B", "C">>

\* Python's order on the strings used as seasons and referee names.
NameOrder == SeasonNames \o RefereeNames
Rank(s) == CHOOSE i \in 1..Len(NameOrder) : NameOrder[i] = s
StrLess(a, b) == Rank(a) < Rank(b)

\* Fixture sides: tracked team away, tracked team at home, tracked team absent.
Sides == << [home |-> "TeamX", away |-> TrackedTeam],
            [home |-> TrackedTeam, away |-> "TeamY"],
            [home |-> "TeamX", away |-> "TeamY"] >>
\* Full-time scores <<home goals, away goals>>: away win, draw, home win.
ScoreLines == << <<1, 3>>, <<2, 2>>, <<1, 0>> >>

RawHeader == {"HomeTeam", "AwayTeam", "FTHG", "FTAG", "FTR", "Season", "Referee"}
CleanHeader == {"home_team", "away_team", "home_goals", "away_goals", "result",
                "Season", "Referee"}

\* One match of the file, under both spellings of every column.
FullRow(home, away, hg, ag, season, referee) ==
  LET ftr == IF hg > ag THEN "H" ELSE IF hg < ag THEN "A" ELSE "D"
  IN [c \in RawHeader \cup CleanHeader |->
        CASE c \in {"HomeTeam", "home_team"} -> home
          [] c \in {"AwayTeam", "away_team"} -> away
          [] c \in {"FTHG", "home_goals"} -> hg
          [] c \in {"FTAG", "away_goals"} -> ag
          [] c \in {"FTR", "result"} -> ftr
          [] c = "Season" -> season
          [] c = "Referee" -> referee]

\* A fixture <<side, score, season, referee>> indexes the lists above.
Fixtures ==
  {f \in (1..Len(Sides)) \X (1..Len(ScoreLines)) \X (1..Len(SeasonNames)) \X (1..NumReferees) :
      f[1] = 3 => f[2] = 1}
FixtureRow(f) ==
  FullRow(Sides[f[1]].home, Sides[f[1]].away, ScoreLines[f[2]][1], ScoreLines[f[2]][2],
          SeasonNames[f[3]], RefereeNames[f[4]])

FixtureLeq(f, g) ==
  \/ f[1] < g[1]
  \/ f[1] = g[1] /\ f[2] < g[2]
  \/ f[1] = g[1] /\ f[2] = g[2] /\ f[3] < g[3]
  \/ f[1] = g[1] /\ f[2] = g[2] /\ f[3] = g[3] /\ f[4] <= g[4]

\* Match lists of one to MaxRows fixtures.  No computation of main() reads
\* the position of a row, so one order per multiset of matches is kept.
FixtureLists ==
  {t \in UNION {[1..n -> Fixtures] : n \in 1..MaxRows} :
      \A i \in 1..(Len(t) - 1) : FixtureLeq(t[i], t[i + 1])}

ExampleList == << <<1, 1, 1, 1>>, <<2, 2, 1, 1>> >>

\* The CSV file with header h holding the matches of list t.
CsvFile(h, t) ==
  [columns |-> h,
   rows |-> [i \in 1..Len(t) |-> [c \in h |-> FixtureRow(t[i])[c]]]]

CsvFiles ==
  {CsvFile(RawHeader, t) : t \in FixtureLists}
    \cup {CsvFile(h, ExampleList) : h \in (SUBSET RawHeader) \cup (SUBSET CleanHeader)}

NoTable == [columns |-> {}, rows |-> <<>>]

\* ------------------------------------------------------ dataframe helpers
Range(s) == {s[i] : i \in DOMAIN s}

\* df[name] = values, values being the Series that apply(..., axis=1) or
\* map(...) returned: one value per row
WithColumn(t, name, values) ==
  [columns |-> t.columns \cup {name},
   rows |-> [i \in 1..Len(t.rows) |->
               [c \in t.columns \cup {name} |->
                  IF c = name THEN values[i] ELSE t.rows[i][c]]]]

\* df[mask].copy(), mask being a boolean Series: one value per row
Where(t, mask) ==
  LET kept == SelectSeq([i \in 1..Len(t.rows) |-> i], LAMBDA i : mask[i])
  IN [columns |-> t.columns, rows |-> [j \in 1..Len(kept) |-> t.rows[kept[j]]]]

\* sorted(series.unique()) and the sorted group keys of groupby
Unique(t, col) == {t.rows[i][col] : i \in 1..Len(t.rows)}
Sorted(S) ==
  CHOOSE s \in [1..Cardinality(S) -> S] :
    \A i, j \in 1..Cardinality(S) : i < j => StrLess(s[i], s[j])

RECURSIVE GCD(_, _)
GCD(a, b) == IF b = 0 THEN a ELSE GCD(b, a % b)
Abs(n) == IF n < 0 THEN -n ELSE n
Frac(n, d) == LET g == GCD(Abs(n), d) IN <<n \div g, d \div g>>
FracLess(a, b) == a[1] * b[2] < b[1] * a[2]

RECURSIVE SumSeq(_)
SumSeq(s) == IF s = <<>> THEN 0 ELSE Head(s) + SumSeq(Tail(s))

\* ---------------------------------------------------------------- state
VARIABLES csv, cache, widget, pc, df, mu_matches, seasons, referees, filtered,
          win_rate_ref, gd_ref, win_rate_season, heatmap_data, missing, exc, out

vars == <<csv, cache, widget, pc, df, mu_matches, seasons, referees, filtered,
          win_rate_ref, gd_ref, win_rate_season, heatmap_data, missing, exc, out>>

locals == <<df, mu_matches, seasons, referees, filtered,
            win_rate_ref, gd_ref, win_rate_season, heatmap_data, missing>>

\* ------------------------------------------------------------- load_data
RenameMap(columns) ==
  [c \in columns \cap {"HomeTeam", "AwayTeam", "FTHG", "FTAG", "FTR"} |->
     CASE c = "HomeTeam" -> "home_team"
       [] c = "AwayTeam" -> "away_team"
       [] c = "FTHG" -> "home_goals"
       [] c = "FTAG" -> "away_goals"
       [] c = "FTR" -> "result"]

Rename(t, m) ==
  LET new(c) == IF c \in DOMAIN m THEN m[c] ELSE c
      cols == {new(c) : c \in t.columns}
  IN [columns |-> cols,
      rows |-> [i \in 1..Len(t.rows) |->
                  [d \in cols |-> t.rows[i][CHOOSE c \in t.columns : new(c) = d]]]]

load_data(file) == Rename(file, RenameMap(file.columns))

\* ------------------------------------------------------------------ main
required_cols == <<"home_team", "away_team", "home_goals", "away_goals", "Season", "Referee">>

\* Variant of the column check that reports only the first absent column.
MissingColumns_FirstOnly(columns) ==
  LET all == SelectSeq(required_cols, LAMBDA c : c \notin columns)
  IN IF all = <<>> THEN <<>> ELSE <<all[1]>>

\* missing = [c for c in required_cols if c not in df.columns]
MissingColumns(columns) == SelectSeq(required_cols, LAMBDA c : c \notin columns)

is_mu_match(row) == row["home_team"] = TrackedTeam \/ row["away_team"] = TrackedTeam

\* Variant of the classifier that reads every match from the home side.
mu_result_NoFlip(row) ==
  IF row["home_goals"] > row["away_goals"] THEN "W"
  ELSE IF row["home_goals"] < row["away_goals"] THEN "L"
  ELSE "D"

mu_result(row) ==
  IF row["home_team"] = TrackedTeam
    THEN IF row["home_goals"] > row["away_goals"] THEN "W"
         ELSE IF row["home_goals"] < row["away_goals"] THEN "L"
         ELSE "D"
    ELSE IF row["away_goals"] > row["home_goals"] THEN "W"
         ELSE IF row["away_goals"] < row["home_goals"] THEN "L"
         ELSE "D"

goal_diff(row) ==
  IF row["home_team"] = TrackedTeam
    THEN row["home_goals"] - row["away_goals"]
    ELSE row["away_goals"] - row["home_goals"]

\* Variant of value_counts that gives every key the length of the table.
ValueCounts_TableLength(t, col) == [k \in Unique(t, col) |-> Len(t.rows)]

\* filtered["Referee"].value_counts()
ValueCounts(t, col) ==
  [k \in Unique(t, col) |-> Cardinality({i \in 1..Len(t.rows) : t.rows[i][col] = k})]

\* the rows of one group, in table order
Group(t, col, k) == SelectSeq(t.rows, LAMBDA r : r[col] = k)

\* Variant of the win rate that counts draws as wins.
WinRate_CountsDraws(rows) ==
  Frac(100 * Len(SelectSeq(rows, LAMBDA r : r["mu_result"] \in {"W", "D"})), Len(rows))

\* (x == "W").mean() * 100
WinRate(rows) ==
  Frac(100 * Len(SelectSeq(rows, LAMBDA r : r["mu_result"] = "W")), Len(rows))

\* x.mean() of the goal_diff column
MeanGoalDiff(rows) ==
  Frac(SumSeq([i \in 1..Len(rows) |-> rows[i]["goal_diff"]]), Len(rows))

\* groupby(col)["mu_result"].apply(lambda x: (x == "W").mean() * 100):
\* one entry per group, keys ascending
GroupWinRate(t, col) ==
  LET keys == Sorted(Unique(t, col))
  IN [i \in 1..Len(keys) |-> <<keys[i], WinRate(Group(t, col, keys[i]))>>]

\* groupby("Referee")["goal_diff"].mean(): one entry per group, keys ascending
GroupMeanGoalDiff(t) ==
  LET keys == Sorted(Unique(t, "Referee"))
  IN [i \in 1..Len(keys) |-> <<keys[i], MeanGoalDiff(Group(t, "Referee", keys[i]))>>]

\* sort_values(ascending=False) with the default kind="quicksort": the
\* results a build can give are the value-descending orders of the entries;
\* quicksort fixes no order among equal values.
SortValuesDescending(s) ==
  {p \in [1..Len(s) -> Range(s)] :
     /\ Range(p) = Range(s)
     /\ \A i, j \in 1..Len(s) : i < j => ~FracLess(p[i][2], p[j][2])}

\* Variant of the matrix without unstack's fill: only pairs that have matches.
Heatmap_Sparse(t) ==
  [p \in {<<t.rows[i]["Referee"], t.rows[i]["Season"]>> : i \in 1..Len(t.rows)} |->
     WinRate(SelectSeq(t.rows, LAMBDA r : r["Referee"] = p[1] /\ r["Season"] = p[2]))]

\* groupby(["Referee", "Season"]).apply(...).unstack(fill_value=0)
Heatmap(t) ==
  [p \in Unique(t, "Referee") \X Unique(t, "Season") |->
     LET rows == SelectSeq(t.rows, LAMBDA r : r["Referee"] = p[1] /\ r["Season"] = p[2])
     IN IF rows = <<>> THEN Frac(0, 1) ELSE WinRate(rows)]

\* filtered.groupby("Referee")["match_count"].first()
RefereeMatchCounts(t) ==
  [k \in Unique(t, "Referee") |-> Group(t, "Referee", k)[1]["match_count"]]

\* Names bound at module level (imports and defs) when main() runs.
ModuleNames == {"st", "pd", "px", "traceback", "load_data", "main"}

\* Exceptions that "except Exception" catches; streamlit's StopException
\* derives from BaseException and passes through.
CaughtByHandler == {"ValueError", "NameError"}

Init ==
  /\ csv \in CsvFiles
  /\ cache = <<>>
  /\ widget = <<>>
  /\ pc = "start"
  /\ df = NoTable
  /\ mu_matches = NoTable
  /\ seasons = {}
  /\ referees = {}
  /\ filtered = NoTable
  /\ win_rate_ref = <<>>
  /\ gd_ref = <<>>
  /\ win_rate_season = <<>>
  /\ heatmap_data = <<>>
  /\ missing = <<>>
  /\ exc = "none"
  /\ out = <<>>

\* lines 36-45: title, load_data() through st.cache_data, data preview
Load ==
  /\ pc = "start"
  /\ df' = IF cache = <<>> THEN load_data(csv) ELSE cache[1]
  /\ cache' = IF cache = <<>> THEN <<load_data(csv)>> ELSE cache
  /\ out' = <<"title", "preview">>
  /\ pc' = "loaded"
  /\ UNCHANGED <<csv, widget, mu_matches, seasons, referees, filtered,
                 win_rate_ref, gd_ref, win_rate_season, heatmap_data, missing, exc>>

\* lines 47-52: required-column check, st.error and st.stop()
CheckColumns ==
  /\ pc = "loaded"
  /\ missing' = MissingColumns(df.columns)
  /\ IF missing' # <<>>
       THEN /\ exc' = "StopException"
            /\ IF "StopException" \in CaughtByHandler
                 THEN /\ out' = out \o <<"error:missing", "error:generic">>
                      /\ pc' = "error"
                 ELSE /\ out' = Append(out, "error:missing")
                      /\ pc' = "stopped"
       ELSE /\ pc' = "checked"
            /\ UNCHANGED <<out, exc>>
  /\ UNCHANGED <<csv, cache, widget, df, mu_matches, seasons, referees, filtered,
                 win_rate_ref, gd_ref, win_rate_season, heatmap_data>>

\* lines 54-85: is_mu_match column, mu_matches, mu_result column.
\* DataFrame.apply(axis=1) on a frame without rows returns, depending on the
\* pandas build, an empty Series (reduces) or a copy of the frame, and
\* assigning a frame of several columns to one column raises ValueError.
DeriveOutcomes ==
  /\ pc = "checked"
  /\ \E reduces \in BOOLEAN :
       LET marked == WithColumn(df, "is_mu_match",
                                [i \in 1..Len(df.rows) |-> is_mu_match(df.rows[i])])
           mu == Where(marked, [i \in 1..Len(marked.rows) |-> marked.rows[i]["is_mu_match"]])
       IN /\ df' = marked
          /\ IF mu.rows = <<>> /\ ~reduces
               THEN /\ mu_matches' = mu
                    /\ exc' = "ValueError"
                    /\ out' = Append(out, "error:generic")
                    /\ pc' = "error"
               ELSE /\ mu_matches' = WithColumn(mu, "mu_result",
                                    [i \in 1..Len(mu.rows) |-> mu_result(mu.rows[i])])
                    /\ pc' = "derived"
                    /\ UNCHANGED <<out, exc>>
  /\ UNCHANGED <<csv, cache, widget, seasons, referees, filtered,
                 win_rate_ref, gd_ref, win_rate_season, heatmap_data, missing>>

\* lines 87-111: sidebar multiselects, filtered, empty-selection warning
Filter ==
  /\ pc = "derived"
  /\ seasons' = IF widget = <<>> THEN Unique(df, "Season") ELSE widget[1].seasons
  /\ referees' = IF widget = <<>> THEN Unique(mu_matches, "Referee") ELSE widget[1].referees
  /\ filtered' = Where(mu_matches,
                       [i \in 1..Len(mu_matches.rows) |->
                          /\ mu_matches.rows[i]["Season"] \in seasons'
                          /\ mu_matches.rows[i]["Referee"] \in referees'])
  /\ IF filtered'.rows = <<>>
       THEN /\ out' = out \o <<"sidebar", "warning">>
            /\ pc' = "warned"
       ELSE /\ out' = Append(out, "sidebar")
            /\ pc' = "filtered"
  /\ UNCHANGED <<csv, cache, widget, df, mu_matches,
                 win_rate_ref, gd_ref, win_rate_season, heatmap_data, missing, exc>>

\* lines 113-151: match_count, win_rate_ref, goal_diff, gd_ref,
\* win_rate_season, heatmap_data
Aggregate ==
  /\ pc = "filtered"
  /\ LET counts == ValueCounts(filtered, "Referee")
         counted == WithColumn(filtered, "match_count",
                               [i \in 1..Len(filtered.rows) |->
                                  counts[filtered.rows[i]["Referee"]]])
         diffed == WithColumn(counted, "goal_diff",
                              [i \in 1..Len(counted.rows) |-> goal_diff(counted.rows[i])])
     IN /\ win_rate_ref' \in SortValuesDescending(GroupWinRate(counted, "Referee"))
        /\ filtered' = diffed
        /\ gd_ref' \in SortValuesDescending(GroupMeanGoalDiff(diffed))
        /\ win_rate_season' = GroupWinRate(diffed, "Season")
        /\ heatmap_data' = Heatmap(diffed)
  /\ pc' = "aggregated"
  /\ UNCHANGED <<csv, cache, widget, df, mu_matches, seasons, referees, missing, exc, out>>

\* lines 153-203: the layout section; its first statement calls the name
\* "der", and an unbound name raises NameError into the except clause.
Layout ==
  /\ pc = "aggregated"
  /\ IF "der" \in ModuleNames
       THEN /\ out' = out \o <<"chart:win_rate_ref", "chart:gd_ref",
                               "chart:win_rate_season", "table:match_count">>
            /\ pc' = "done"
            /\ UNCHANGED exc
       ELSE /\ exc' = "NameError"
            /\ out' = IF "NameError" \in CaughtByHandler
                        THEN Append(out, "error:generic") ELSE out
            /\ pc' = "error"
  /\ UNCHANGED <<csv, cache, widget, locals>>

\* A script rerun: once a pass has ended the user changes the sidebar
\* selection (when the multiselects were drawn) or reloads the page.
Rerun ==
  /\ pc \in {"stopped", "warned", "error", "done"}
  /\ IF "sidebar" \in Range(out)
       THEN \E S \in SUBSET Unique(df, "Season"), R \in SUBSET Unique(mu_matches, "Referee") :
              widget' = <<[seasons |-> S, referees |-> R]>>
       ELSE UNCHANGED widget
  /\ pc' = "start"
  /\ df' = NoTable
  /\ mu_matches' = NoTable
  /\ seasons' = {}
  /\ referees' = {}
  /\ filtered' = NoTable
  /\ win_rate_ref' = <<>>
  /\ gd_ref' = <<>>
  /\ win_rate_season' = <<>>
  /\ heatmap_data' = <<>>
  /\ missing' = <<>>
  /\ exc' = "none"
  /\ out' = <<>>
  /\ UNCHANGED <<csv, cache>>

Next ==
  \/ Load
  \/ CheckColumns
  \/ DeriveOutcomes
  \/ Filter
  \/ Aggregate
  \/ Layout
  \/ Rerun

Spec == Init /\ [][Next]_vars

\* ------------------------------------------- the classifier on its own
\* mu_result applied to one arbitrary match record, as line 85 applies it
\* to each row of mu_matches, without the is_mu_match pre-filter.
Teams == {TrackedTeam, "TeamX", "TeamY"}

ClassifierInputs ==
  {[c \in Range(required_cols) |->
      FullRow(m[1], m[2], m[3], m[4], SeasonNames[1], RefereeNames[1])[c]] :
     m \in {x \in Teams \X Teams \X (0..MaxGoals) \X (0..MaxGoals) : x[1] # x[2]}}

InitClassifier ==
  /\ csv = NoTable
  /\ cache = <<>>
  /\ widget = <<>>
  /\ pc = "classify"
  /\ df = NoTable
  /\ \E r \in ClassifierInputs : mu_matches = [columns |-> Range(required_cols), rows |-> <<r>>]
  /\ seasons = {}
  /\ referees = {}
  /\ filtered = NoTable
  /\ win_rate_ref = <<>>
  /\ gd_ref = <<>>
  /\ win_rate_season = <<>>
  /\ heatmap_data = <<>>
  /\ missing = <<>>
  /\ exc = "none"
  /\ out = <<>>

ApplyClassifier ==
  /\ pc = "classify"
  /\ mu_matches' = WithColumn(mu_matches, "mu_result",
                              [i \in 1..Len(mu_matches.rows) |-> mu_result(mu_matches.rows[i])])
  /\ pc' = "classified"
  /\ UNCHANGED <<csv, cache, widget, df, seasons, referees, filtered,
                 win_rate_ref, gd_ref, win_rate_season, heatmap_data, missing, exc, out>>

NextClassifier == ApplyClassifier

SpecClassifier == InitClassifier /\ [][NextClassifier]_vars

\* ------------------------------------------------------------ properties
PassEnded == pc \in {"stopped", "warned", "error", "done"}
Aggregated == pc \in {"aggregated", "error", "done"} /\ "goal_diff" \in filtered.columns
HandlerEntered == "error:generic" \in Range(out)

Involves(r) == r["home_team"] = TrackedTeam \/ r["away_team"] = TrackedTeam
TrackedGoals(r) == IF r["home_team"] = TrackedTeam THEN r["home_goals"] ELSE r["away_goals"]
OpponentGoals(r) == IF r["home_team"] = TrackedTeam THEN r["away_goals"] ELSE r["home_goals"]

\* Row numbers of the source table that the selection <<seasons, referees>> keeps.
Selected ==
  {i \in 1..Len(df.rows) :
     /\ Involves(df.rows[i])
     /\ df.rows[i]["Season"] \in seasons
     /\ df.rows[i]["Referee"] \in referees}
SelectedOf(col, k) == {i \in Selected : df.rows[i][col] = k}
WinsIn(I) == {i \in I : TrackedGoals(df.rows[i]) > OpponentGoals(df.rows[i])}

RECURSIVE DiffSum(_)
DiffSum(I) ==
  IF I = {} THEN 0
  ELSE LET i == CHOOSE x \in I : TRUE
       IN (TrackedGoals(df.rows[i]) - OpponentGoals(df.rows[i])) + DiffSum(I \ {i})

RECURSIVE SumOver(_, _)
SumOver(f, K) ==
  IF K = {} THEN 0 ELSE LET k == CHOOSE x \in K : TRUE IN f[k] + SumOver(f, K \ {k})

Keys(series) == {series[i][1] : i \in 1..Len(series)}
NoDuplicateKeys(series) == Cardinality(Keys(series)) = Len(series)

\* C1: applied to a record in which the tracked team is on neither side,
\* mu_result raises the Ambiguous-Team-Side condition and gives no label.
C1_AmbiguousSideRaises ==
  (pc = "classified" /\ ~Involves(mu_matches.rows[1]))
    => (exc = "AmbiguousTeamSide" /\ "mu_result" \notin mu_matches.columns)

\* C2: every derived match has an outcome among W, D, L, and its goal
\* differential is positive exactly for W, negative exactly for L and zero
\* exactly for D, home or away.
C2_OutcomeMatchesGoalDiff ==
  Aggregated =>
    \A i \in 1..Len(filtered.rows) :
      LET r == filtered.rows[i]
      IN /\ Involves(r)
         /\ r["mu_result"] \in {"W", "D", "L"}
         /\ (r["goal_diff"] > 0) <=> (r["mu_result"] = "W")
         /\ (r["goal_diff"] < 0) <=> (r["mu_result"] = "L")
         /\ (r["goal_diff"] = 0) <=> (r["mu_result"] = "D")
         /\ r["goal_diff"] = TrackedGoals(r) - OpponentGoals(r)

C2_Witness ==
  /\ Aggregated
  /\ \E i, j \in 1..Len(filtered.rows) :
       /\ filtered.rows[i]["away_team"] = TrackedTeam
       /\ filtered.rows[i]["mu_result"] = "W"
       /\ filtered.rows[j]["home_team"] = TrackedTeam
       /\ filtered.rows[j]["mu_result"] = "L"

\* C3: the win rate of a referee (of a season) is 100 x wins / matches over
\* exactly the tracked team's matches of that referee (season) whose season
\* and referee are selected, and the mean goal differential of a referee is
\* the mean over that same group.
C3_RatesOverSelectedGroup ==
  Aggregated =>
    /\ NoDuplicateKeys(win_rate_ref) /\ NoDuplicateKeys(gd_ref)
    /\ NoDuplicateKeys(win_rate_season)
    /\ Keys(win_rate_ref) = {df.rows[i]["Referee"] : i \in Selected}
    /\ Keys(gd_ref) = {df.rows[i]["Referee"] : i \in Selected}
    /\ Keys(win_rate_season) = {df.rows[i]["Season"] : i \in Selected}
    /\ \A n \in 1..Len(win_rate_ref) :
         LET I == SelectedOf("Referee", win_rate_ref[n][1])
         IN win_rate_ref[n][2] = Frac(100 * Cardinality(WinsIn(I)), Cardinality(I))
    /\ \A n \in 1..Len(gd_ref) :
         LET I == SelectedOf("Referee", gd_ref[n][1])
         IN gd_ref[n][2] = Frac(DiffSum(I), Cardinality(I))
    /\ \A n \in 1..Len(win_rate_season) :
         LET I == SelectedOf("Season", win_rate_season[n][1])
         IN win_rate_season[n][2] = Frac(100 * Cardinality(WinsIn(I)), Cardinality(I))

\* The away 3-1 win and the home 2-2 draw under referee A in season 2020.
C3_Witness ==
  /\ pc = "aggregated"
  /\ csv = CsvFile(RawHeader, ExampleList)
  /\ win_rate_ref = << <<"A", <<50, 1>> >> >>
  /\ win_rate_season = << <<"2020", <<50, 1>> >> >>
  /\ gd_ref = << <<"A", <<1, 1>> >> >>

\* C4: when a required column is absent after loading, the pass reports
\* every absent column and stops before any filtering, derivation or
\* aggregate view.
C4_MissingColumnsStop ==
  LET absent == {c \in Range(required_cols) : c \notin df.columns}
  IN /\ (pc \notin {"start", "loaded", "classify", "classified"} /\ absent # {})
          => pc = "stopped"
     /\ pc = "stopped" =>
          /\ Range(missing) = absent
          /\ absent # {}
          /\ out = <<"title", "preview", "error:missing">>
          /\ df = load_data(csv)
          /\ mu_matches = NoTable /\ filtered = NoTable
          /\ win_rate_ref = <<>> /\ gd_ref = <<>>
          /\ win_rate_season = <<>> /\ heatmap_data = <<>>

C4_Witness == pc = "stopped" /\ Len(missing) >= 2 /\ "home_team" \in df.columns

C6_SourceTableUnmodified == PassEnded => df = load_data(csv)

\* C7: the per-referee match counts of a non-empty filtered set sum to its
\* number of rows, each referee's count being the number of its rows.
C7_MatchCountsPartition ==
  Aggregated =>
    LET counts == RefereeMatchCounts(filtered)
    IN /\ SumOver(counts, DOMAIN counts) = Len(filtered.rows)
       /\ Len(filtered.rows) = Cardinality(Selected)
       /\ \A k \in DOMAIN counts : counts[k] = Cardinality(SelectedOf("Referee", k))

C7_Witness ==
  /\ Aggregated
  /\ Len(filtered.rows) >= 2
  /\ Cardinality(DOMAIN RefereeMatchCounts(filtered)) >= 2

\* C8: the referee x season matrix has an entry for every referee present
\* paired with every season present: the pair's win rate when the pair has
\* a match, 0 when it has none.
C8_MatrixDense ==
  Aggregated =>
    LET refs == {df.rows[i]["Referee"] : i \in Selected}
        seas == {df.rows[i]["Season"] : i \in Selected}
    IN /\ DOMAIN heatmap_data = refs \X seas
       /\ Cardinality(DOMAIN heatmap_data) = Cardinality(refs) * Cardinality(seas)
       /\ \A p \in refs \X seas :
            LET I == {i \in SelectedOf("Referee", p[1]) : df.rows[i]["Season"] = p[2]}
            IN heatmap_data[p] =
                 IF I = {} THEN <<0, 1>>
                 ELSE Frac(100 * Cardinality(WinsIn(I)), Cardinality(I))

C8_Witness ==
  /\ Aggregated
  /\ Cardinality(DOMAIN heatmap_data) = 4
  /\ \E p \in DOMAIN heatmap_data :
       /\ heatmap_data[p] = <<0, 1>>
       /\ \A i \in Selected : <<df.rows[i]["Referee"], df.rows[i]["Season"]>> # p

\* C9: both per-referee views are ordered descending by value, referees of
\* equal value in ascending order of name.
C9_TiesByRefereeName ==
  Aggregated =>
    \A s \in {win_rate_ref, gd_ref} :
      \A i, j \in 1..Len(s) :
        i < j => \/ FracLess(s[j][2], s[i][2])
                 \/ s[i][2] = s[j][2] /\ StrLess(s[i][1], s[j][1])

\* C10: a pass with all required columns and a non-empty filtered set runs
\* the layout to its end, the four elements drawn in order, and never enters
\* the generic exception handler.
C10_LayoutCompletes ==
  (PassEnded /\ pc # "stopped" /\ filtered.rows # <<>>)
    => /\ pc = "done"
       /\ ~HandlerEntered
       /\ out = <<"title", "preview", "sidebar", "chart:win_rate_ref", "chart:gd_ref",
                  "chart:win_rate_season", "table:match_count">>

====
